---- MODULE Spec2Model ----
(***************************************************************************)
(* Model of gemini.py: the pure function riemann_hypotenuse and the test   *)
(* driver run_tests.                                                       *)
(*                                                                         *)
(* Python floats are IEEE-754 binary floating-point numbers.  The model    *)
(* keeps the structure of that arithmetic (a significand of PrecBits bits, *)
(* a bounded exponent, subnormals, signed zeros, infinities, rounding to   *)
(* nearest with ties to even after every operation, OverflowError raised   *)
(* by ** and math.exp) at a reduced width: binary64 has 53 significand     *)
(* bits and a largest exponent of 1023.                                    *)
(***************************************************************************)
EXTENDS Integers, Sequences, FiniteSets

VARIABLES
    arg_a, arg_b, arg_k,  \* the arguments of a call of riemann_hypotenuse
    ret,                  \* the outcome of that call
    arg_k2, ret2,         \* a second call with the same a, b and another factor
    fpc,                  \* "init" | "called" | "called2"
    test_cases,           \* run_tests: the list of cases
    i,                    \* run_tests: number of cases processed so far
    all_tests_passed,     \* run_tests: the flag of line 74
    out,                  \* run_tests: what has been printed, in order
    pc                    \* run_tests: "start" | "loop" | "summary" | "done" | "raised"

fnvars == <<arg_a, arg_b, arg_k, ret, arg_k2, ret2, fpc>>
runvars == <<test_cases, i, all_tests_passed, out, pc>>
vars == <<arg_a, arg_b, arg_k, ret, arg_k2, ret2, fpc,
          test_cases, i, all_tests_passed, out, pc>>

----------------------------------------------------------------------------
(* The floating-point format. *)

\* bits of the significand (binary64: 53)
PrecBits == 13

\* largest exponent of a normal number, value < 2^(MaxExponent+1) (binary64: 1023)
MaxExponent == 63

\* A finite float is (-1)^sgn * man * 2^exp with man < 2^PrecBits and
\* ExpLo <= exp <= ExpHi; it is normal when man >= 2^(PrecBits-1), and
\* subnormal or zero (exp = ExpLo) otherwise, so every value has one record.
ExpHi == MaxExponent - PrecBits + 1
ExpLo == (1 - MaxExponent) - PrecBits + 1

Max(x, y) == IF x >= y THEN x ELSE y
Min(x, y) == IF x <= y THEN x ELSE y

RECURSIVE BitLen(_)
BitLen(n) == IF n = 0 THEN 0 ELSE 1 + BitLen(n \div 2)

Zero(s) == [cls |-> "fin", sgn |-> s, man |-> 0, exp |-> ExpLo]
Inf(s) == [cls |-> "inf", sgn |-> s, man |-> 0, exp |-> 0]
NaN == [cls |-> "nan", sgn |-> 0, man |-> 0, exp |-> 0]

IsZero(x) == x.cls = "fin" /\ x.man = 0

Finish(s, m, e) ==
    IF e > ExpHi THEN Inf(s) ELSE [cls |-> "fin", sgn |-> s, man |-> m, exp |-> e]

\* The float nearest to (-1)^s * M * 2^e, ties to even; an infinity when the
\* rounded value exceeds the largest finite float.  An inexact M carries its
\* sticky bit as its lowest bit and has at least PrecBits+2 bits.
RoundFloat(s, M, e) ==
    IF M = 0 THEN Zero(s)
    ELSE LET n == BitLen(M)
             sh == Max(n - PrecBits, ExpLo - e)
         IN  IF sh <= 0
             THEN LET up == Min(PrecBits - n, e - ExpLo)
                  IN  Finish(s, M * 2^up, e - up)
             ELSE IF sh > n THEN Zero(s)
             ELSE LET q == M \div 2^sh
                      r == M % 2^sh
                      half == 2^(sh - 1)
                      m1 == IF r > half \/ (r = half /\ q % 2 = 1)
                            THEN q + 1 ELSE q
                  IN  IF m1 = 2^PrecBits
                      THEN Finish(s, 2^(PrecBits - 1), e + sh + 1)
                      ELSE Finish(s, m1, e + sh)

\* an integer or a dyadic rational written as a float
FromInt(n) == IF n < 0 THEN RoundFloat(1, -n, 0) ELSE RoundFloat(0, n, 0)
Ldexp(x, n) == IF x.cls = "fin" THEN RoundFloat(x.sgn, x.man, x.exp + n) ELSE x

\* A decimal literal num/den of the source text (num >= 0, den > 0), rounded
\* to the nearest float as float() of the literal is: binary long division
\* down to PrecBits+2 quotient bits, then the sticky bit.
RECURSIVE LongDiv(_, _, _, _)
LongDiv(q, r, den, e) ==
    IF BitLen(q) >= PrecBits + 2
    THEN RoundFloat(0, 2 * q + (IF r > 0 THEN 1 ELSE 0), e - 1)
    ELSE LongDiv(2 * q + (IF 2 * r >= den THEN 1 ELSE 0),
                 IF 2 * r >= den THEN 2 * r - den ELSE 2 * r,
                 den, e - 1)

Literal(num, den) ==
    IF num % den = 0 THEN FromInt(num \div den)
    ELSE LongDiv(num \div den, num % den, den, 0)

FNeg(x) == [x EXCEPT !.sgn = 1 - x.sgn]

\* abs()
FAbs(x) == [x EXCEPT !.sgn = 0]

\* magnitudes of finite floats compare as (exp, man), the records being canonical
MagLt(x, y) == x.exp < y.exp \/ (x.exp = y.exp /\ x.man < y.man)

\* x == y of floats: the zeros are equal, a NaN equals nothing
FEq(x, y) ==
    /\ x.cls # "nan" /\ y.cls # "nan"
    /\ \/ x = y
       \/ IsZero(x) /\ IsZero(y)

\* x < y of floats
FLt(x, y) ==
    /\ x.cls # "nan" /\ y.cls # "nan"
    /\ ~FEq(x, y)
    /\ IF x.sgn # y.sgn THEN x.sgn = 1
       ELSE LET lt == IF x.cls = "inf" THEN FALSE
                      ELSE IF y.cls = "inf" THEN TRUE
                      ELSE MagLt(x, y)
            IN  IF x.sgn = 0 THEN lt ELSE ~lt

FLe(x, y) == FLt(x, y) \/ FEq(x, y)

\* x * y
FMul(x, y) ==
    LET s == (x.sgn + y.sgn) % 2
    IN  IF x.cls = "nan" \/ y.cls = "nan" THEN NaN
        ELSE IF x.cls = "inf" \/ y.cls = "inf"
             THEN IF IsZero(x) \/ IsZero(y) THEN NaN ELSE Inf(s)
        ELSE RoundFloat(s, x.man * y.man, x.exp + y.exp)

\* the sum and the difference of two finite magnitudes, hi the larger; a
\* magnitude more than PrecBits+1 binades below hi cannot change the rounding
AddMag(s, hi, lo) ==
    LET d == hi.exp - lo.exp
    IN  IF d > PrecBits + 1 THEN [hi EXCEPT !.sgn = s]
        ELSE RoundFloat(s, hi.man * 2^d + lo.man, lo.exp)

SubMag(s, hi, lo) ==
    LET d == hi.exp - lo.exp
    IN  IF d > PrecBits + 1 THEN [hi EXCEPT !.sgn = s]
        ELSE RoundFloat(s, hi.man * 2^d - lo.man, lo.exp)

\* x + y
FAdd(x, y) ==
    IF x.cls = "nan" \/ y.cls = "nan" THEN NaN
    ELSE IF x.cls = "inf"
         THEN IF y.cls = "inf" /\ y.sgn # x.sgn THEN NaN ELSE x
    ELSE IF y.cls = "inf" THEN y
    ELSE IF x.sgn = y.sgn
         THEN IF MagLt(x, y) THEN AddMag(x.sgn, y, x) ELSE AddMag(x.sgn, x, y)
    ELSE IF x.man = y.man /\ x.exp = y.exp THEN Zero(0)
    ELSE IF MagLt(x, y) THEN SubMag(y.sgn, y, x) ELSE SubMag(x.sgn, x, y)

\* x - y
FSub(x, y) == FAdd(x, FNeg(y))

\* a nonzero significand shifted up to PrecBits bits and its exponent
NormUp(m, e) ==
    LET j == PrecBits - BitLen(m) IN [man |-> m * 2^j, exp |-> e - j]

\* x / y for a finite nonzero divisor y (the code divides by the literal 10.0)
FDiv(x, y) ==
    LET s == (x.sgn + y.sgn) % 2
    IN  IF x.cls = "nan" \/ y.cls # "fin" \/ IsZero(y) THEN NaN
        ELSE IF x.cls = "inf" THEN Inf(s)
        ELSE IF IsZero(x) THEN Zero(s)
        ELSE LET nx == NormUp(x.man, x.exp)
                 ny == NormUp(y.man, y.exp)
                 num == nx.man * 2^(PrecBits + 2)
                 q == num \div ny.man
                 r == num % ny.man
             IN  RoundFloat(s, 2 * q + (IF r > 0 THEN 1 ELSE 0),
                            nx.exp - ny.exp - (PrecBits + 2) - 1)

----------------------------------------------------------------------------
(* The operations of the Python runtime that the function calls.  A call  *)
(* has an outcome: a returned float, or the exception it raised.          *)

Return(x) == [kind |-> "return", val |-> x]
Raise(exc) == [kind |-> exc, val |-> NaN]

\* a ** 2 of floats (float_pow): the square, correctly rounded; CPython
\* raises OverflowError when the result of a finite operand is out of range
float_pow2(x) ==
    LET p == FMul(x, x)
    IN  IF x.cls = "fin" /\ p.cls = "inf" THEN Raise("OverflowError")
        ELSE Return(p)

\* floor(sqrt(N)) for lo*lo <= N < hi*hi, by bisection
RECURSIVE IsqrtBetween(_, _, _)
IsqrtBetween(N, lo, hi) ==
    IF hi - lo <= 1 THEN lo
    ELSE LET mid == (lo + hi) \div 2
         IN  IF mid * mid <= N THEN IsqrtBetween(N, mid, hi)
             ELSE IsqrtBetween(N, lo, mid)

\* math.sqrt: correctly rounded; ValueError ("math domain error") on a
\* negative argument; sqrt(-0.0) is -0.0 and sqrt(inf) is inf
math_sqrt(x) ==
    IF x.cls = "nan" THEN Return(NaN)
    ELSE IF IsZero(x) THEN Return(x)
    ELSE IF x.sgn = 1 THEN Raise("ValueError")
    ELSE IF x.cls = "inf" THEN Return(x)
    ELSE LET nx == NormUp(x.man, x.exp)
             j == IF (nx.exp - (PrecBits + 1)) % 2 = 0
                  THEN PrecBits + 1 ELSE PrecBits + 2
             N == nx.man * 2^j
             q == IsqrtBetween(N, 2^PrecBits, 2^(PrecBits + 1))
         IN  Return(RoundFloat(0, 2 * q + (IF q * q = N THEN 0 ELSE 1),
                               (nx.exp - j) \div 2 - 1))

\* floor(t * r / 2^24) of two fixed-point numbers below 2^25, by 12-bit halves
FxMul(t, r) ==
    LET th == t \div 4096
        tl == t % 4096
        rh == r \div 4096
        rl == r % 4096
    IN  th * rh + (th * rl + tl * rh + (tl * rl) \div 4096) \div 4096

\* the Taylor series of exp(r), 0 <= r < ln 2, in fixed point with 24
\* fraction bits: the sum of the terms from t (the n-th one) on
RECURSIVE ExpSeries(_, _, _)
ExpSeries(t, r, n) ==
    IF t = 0 THEN 0 ELSE t + ExpSeries(FxMul(t, r) \div (n + 1), r, n + 1)

\* math.exp: as libm computes it, x = q*ln2 + r and exp(x) = 2^q * exp(r),
\* rounded to the format; OverflowError ("math range error") when the result
\* is out of range; exp of a large negative argument underflows to 0.0
math_exp(x) ==
    IF x.cls = "nan" THEN Return(NaN)
    ELSE IF x.cls = "inf"
         THEN IF x.sgn = 0 THEN Return(x) ELSE Return(Zero(0))
    ELSE IF x.man # 0 /\ x.exp + BitLen(x.man) > 7
         THEN IF x.sgn = 0 THEN Raise("OverflowError") ELSE Return(Zero(0))
    ELSE LET ln2 == 11629080
             mag == IF x.exp + 24 >= 0 THEN x.man * 2^(x.exp + 24)
                    ELSE IF -(x.exp + 24) > PrecBits THEN 0
                    ELSE x.man \div 2^(-(x.exp + 24))
             fx == IF x.sgn = 0 THEN mag ELSE -mag
             q == fx \div ln2
             r == fx - q * ln2
             v == RoundFloat(0, ExpSeries(16777216, r, 0), q - 24)
         IN  IF v.cls = "inf" THEN Raise("OverflowError") ELSE Return(v)

\* math.isclose(x, y, rel_tol=rel_tol, abs_tol=abs_tol) as CPython computes
\* it: equal values are close, an infinity is close only to itself, and
\* otherwise diff = |y - x| is compared with |rel_tol*y|, |rel_tol*x|, abs_tol
math_isclose(x, y, rel_tol, abs_tol) ==
    IF FEq(x, y) THEN TRUE
    ELSE IF x.cls = "inf" \/ y.cls = "inf" THEN FALSE
    ELSE LET diff == FAbs(FSub(y, x))
         IN  \/ FLe(diff, FAbs(FMul(rel_tol, y)))
             \/ FLe(diff, FAbs(FMul(rel_tol, x)))
             \/ FLe(diff, abs_tol)

----------------------------------------------------------------------------
(* riemann_hypotenuse, lines 3-48 *)

Ten == FromInt(10)

\* the mutants of riemann_hypotenuse used to test the formulas below
riemann_hypotenuse_unclamped(a, b, spheritude_factor) ==
    LET a2 == float_pow2(a)
        b2 == float_pow2(b)
    IN  IF a2.kind # "return" THEN a2
        ELSE IF b2.kind # "return" THEN b2
        ELSE LET distortion_factor == math_exp(FDiv(spheritude_factor, Ten))
             IN  IF distortion_factor.kind # "return" THEN distortion_factor
                 ELSE math_sqrt(FMul(FAdd(a2.val, b2.val), distortion_factor.val))

riemann_hypotenuse_shrinking(a, b, spheritude_factor) ==
    riemann_hypotenuse_unclamped(a, b, FNeg(FAbs(spheritude_factor)))

riemann_hypotenuse(a, b, spheritude_factor) ==
    LET sf == IF FLt(spheritude_factor, Zero(0))
              THEN FAbs(spheritude_factor) ELSE spheritude_factor
        a2 == float_pow2(a)
        b2 == float_pow2(b)
    IN  IF a2.kind # "return" THEN a2
        ELSE IF b2.kind # "return" THEN b2
        ELSE LET base_hypotenuse_squared == FAdd(a2.val, b2.val)
                 distortion_factor == math_exp(FDiv(sf, Ten))
             IN  IF distortion_factor.kind # "return" THEN distortion_factor
                 ELSE math_sqrt(FMul(base_hypotenuse_squared,
                                     distortion_factor.val))

----------------------------------------------------------------------------
(* run_tests, lines 52-105 *)

Case(a, b, k, e) ==
    [a |-> a, b |-> b, spheritude_factor |-> k, expected_output_tolerance |-> e]

\* the list of lines 58-71
LiteralCases == <<
    Case(FromInt(3), FromInt(4), FromInt(0), FromInt(5)),
    Case(FromInt(5), FromInt(12), FromInt(1), Literal(1367, 100)),
    Case(FromInt(6), FromInt(8), FromInt(5), Literal(1648, 100)),
    Case(FromInt(0), FromInt(0), FromInt(10), FromInt(0)),
    Case(FromInt(7), FromInt(0), FromInt(2), Literal(778, 100)),
    Case(FromInt(3), FromInt(4), FromInt(-1), Literal(525, 100)) >>

tolerance_abs == Literal(1, 100)
tolerance_rel == Literal(1, 1000000000)

\* The call of line 81 and the comparison of lines 89-90 on the cases of the
\* list.  Both are pure, so their results are tabulated once per case.
CallOnCase ==
    [test \in {LiteralCases[n] : n \in 1..Len(LiteralCases)} |->
        riemann_hypotenuse(test.a, test.b, test.spheritude_factor)]

CloseOnCase ==
    [test \in {LiteralCases[n] : n \in 1..Len(LiteralCases)} |->
        math_isclose(CallOnCase[test].val, test.expected_output_tolerance,
                     tolerance_rel, tolerance_abs)]

\* lines 81-92: the value calculated for a case, is_close and the status
Calculated(test) == CallOnCase[test]
is_close(test) == CloseOnCase[test]
Status(test) == IF is_close(test) THEN "PASSED" ELSE "FAILED"

\* lines 93-94, and the mutant that assigns the flag on every case
UpdateFlag_Overwrite(flag, close) == close
UpdateFlag(flag, close) == IF ~close THEN FALSE ELSE flag

Line(t, n, s) == [t |-> t, n |-> n, status |-> s]

\* every list the driver is run on: the cases of the literal list, any
\* number of them in any order
RECURSIVE Arrangements(_)
Arrangements(S) ==
    {<<>>} \cup
    UNION { { <<x>> \o rest : rest \in Arrangements(S \ {x}) } : x \in S }

TestCaseLists ==
    { [j \in 1..Len(idx) |-> LiteralCases[idx[j]]] :
        idx \in Arrangements(1..Len(LiteralCases)) }

NoOutcome == [kind |-> "none", val |-> NaN]

RunInit ==
    /\ test_cases \in TestCaseLists
    /\ i = 0
    /\ all_tests_passed = TRUE
    /\ out = <<>>
    /\ pc = "start"

\* lines 73-74
Start ==
    /\ pc = "start"
    /\ out' = Append(out, Line("header", 0, ""))
    /\ all_tests_passed' = TRUE
    /\ i' = 0
    /\ pc' = "loop"
    /\ UNCHANGED <<test_cases, fnvars>>

\* mutants of the loop body: one leaves the loop at the first mismatch, one
\* derives the printed status from the aggregate flag
Iterate_StopOnMismatch ==
    /\ pc = "loop"
    /\ i < Len(test_cases)
    /\ LET test == test_cases[i + 1]
           close == is_close(test)
       IN  /\ all_tests_passed' = UpdateFlag(all_tests_passed, close)
           /\ out' = Append(out, Line("case", i + 1, Status(test)))
           /\ i' = i + 1
           /\ pc' = IF close THEN "loop" ELSE "done"
    /\ UNCHANGED <<test_cases, fnvars>>

Iterate_StatusFromFlag ==
    /\ pc = "loop"
    /\ i < Len(test_cases)
    /\ LET test == test_cases[i + 1]
           close == is_close(test)
       IN  /\ all_tests_passed' = UpdateFlag(all_tests_passed, close)
           /\ out' = Append(out, Line("case", i + 1,
                       IF UpdateFlag(all_tests_passed, close)
                       THEN "PASSED" ELSE "FAILED"))
           /\ i' = i + 1
           /\ pc' = "loop"
    /\ UNCHANGED <<test_cases, fnvars>>

\* lines 75-100: one iteration of the loop.  An exception raised by the call
\* of line 81 is caught nowhere and ends run_tests.
Iterate ==
    /\ pc = "loop"
    /\ i < Len(test_cases)
    /\ LET test == test_cases[i + 1]
           calculated_h == Calculated(test)
       IN  IF calculated_h.kind # "return"
           THEN /\ pc' = "raised"
                /\ UNCHANGED <<i, all_tests_passed, out>>
           ELSE /\ all_tests_passed' =
                       UpdateFlag(all_tests_passed, is_close(test))
                /\ out' = Append(out, Line("case", i + 1, Status(test)))
                /\ i' = i + 1
                /\ pc' = "loop"
    /\ UNCHANGED <<test_cases, fnvars>>

\* lines 102-105, after the last iteration
Summary ==
    /\ pc = "loop"
    /\ i = Len(test_cases)
    /\ out' = Append(out, Line("summary", 0,
                IF all_tests_passed THEN "ALL_PASSED" ELSE "SOME_FAILED"))
    /\ pc' = "done"
    /\ UNCHANGED <<test_cases, i, all_tests_passed, fnvars>>

FnIdle ==
    /\ arg_a = Zero(0) /\ arg_b = Zero(0) /\ arg_k = Zero(0) /\ arg_k2 = Zero(0)
    /\ ret = NoOutcome /\ ret2 = NoOutcome
    /\ fpc = "idle"

Init == RunInit /\ FnIdle

Next == Start \/ Iterate \/ Summary

Spec == Init /\ [][Next]_vars

\* the interpreter runs the driver to its end: no step waits on anything
LiveSpec == Init /\ [][Next]_vars /\ WF_vars(Next)

----------------------------------------------------------------------------
(* Calls of riemann_hypotenuse on inputs drawn from the format: zeros,     *)
(* small integers, neighbouring floats, and values at both ends of the     *)
(* exponent range.                                                         *)

\* the next float above a positive normal one that is not the last of its binade
Succ(x) == [x EXCEPT !.man = @ + 1]

\* a and b with a**2 finite and a**2 + b**2 out of range; a with a**2 out of
\* range; a with a**2 underflowing to 0.0
Big == Ldexp(FromInt(IF MaxExponent % 2 = 1 THEN 6 ELSE 5), MaxExponent \div 2 - 2)
Huge == Ldexp(FromInt(1), MaxExponent \div 2 + 8)
Tiny == Ldexp(FromInt(1), -MaxExponent)

\* k with exp(k/10) out of range; k with k/10 below the resolution of exp at 1
KOver == FromInt(10 * (MaxExponent + 1))
KTiny == Ldexp(FromInt(1), -40)

InputsA == {FromInt(0), FromInt(3), FromInt(5), FromInt(-6), FromInt(7),
            Big, Huge, Tiny}
InputsB == {FromInt(0), FromInt(4), FromInt(12), FromInt(-8), Big}
InputsK == {FromInt(0), FNeg(FromInt(0)), KTiny, FNeg(KTiny), Literal(1, 10),
            FromInt(1), Succ(FromInt(1)), Succ(Succ(FromInt(1))), FromInt(-1),
            FromInt(2), FromInt(3),
            FromInt(5), Succ(FromInt(5)), Succ(Succ(FromInt(5))), FromInt(-5),
            FromInt(10), FromInt(20), FromInt(100),
            KOver, FNeg(KOver)}

RunIdle ==
    /\ test_cases = <<>>
    /\ i = 0
    /\ all_tests_passed = TRUE
    /\ out = <<>>
    /\ pc = "idle"

FnInit ==
    /\ arg_a \in InputsA
    /\ arg_b \in InputsB
    /\ arg_k \in InputsK
    /\ arg_k2 = arg_k
    /\ ret = NoOutcome
    /\ ret2 = NoOutcome
    /\ fpc = "init"
    /\ RunIdle

Call ==
    /\ fpc = "init"
    /\ ret' = riemann_hypotenuse(arg_a, arg_b, arg_k)
    /\ fpc' = "called"
    /\ UNCHANGED <<arg_a, arg_b, arg_k, arg_k2, ret2, runvars>>

CallAgain ==
    /\ fpc = "called"
    /\ \E k2 \in InputsK :
          /\ arg_k2' = k2
          /\ ret2' = riemann_hypotenuse(arg_a, arg_b, k2)
    /\ fpc' = "called2"
    /\ UNCHANGED <<arg_a, arg_b, arg_k, ret, runvars>>

FnNext == Call \/ CallAgain

FnSpec == FnInit /\ [][FnNext]_vars

----------------------------------------------------------------------------
(* Properties of riemann_hypotenuse, checked under FnSpec. *)

Returned(o) == o.kind = "return"
NonNegK(x) == x.cls = "fin" /\ (x.sgn = 0 \/ x.man = 0)

\* C2: riemann_hypotenuse is total over the finite triples: every call on
\* finite a, b, k returns a value and raises nothing.
C2_Total == fpc = "called" => Returned(ret)

\* C3: evenness in k: the call with -k has the outcome of the call with k,
\* for every finite a, b, k.
C3_EvenInK ==
    (fpc = "called2" /\ arg_k2 = FNeg(arg_k)) => ret2 = ret

\* a call with a negative factor and the call with its magnitude, both
\* returning a distorted, nonzero, finite value
C3_Witness ==
    /\ fpc = "called2"
    /\ arg_k2 = FNeg(arg_k)
    /\ arg_k.sgn = 1 /\ arg_k.man # 0
    /\ Returned(ret2)
    /\ ret2.val.cls = "fin"
    /\ ret = ret2
    /\ ret.val # riemann_hypotenuse(arg_a, arg_b, Zero(0)).val

\* C4: for all finite a, b, k the call returns a value, and that value
\* is >= 0.
C4_ReturnsNonNegative ==
    fpc = "called" => (Returned(ret) /\ FLe(Zero(0), ret.val))

\* what C4 leaves when the calls that raise are set aside: no call returns a
\* negative value or a NaN, and none ends in the ValueError of math.sqrt
ReturnedIsNonNegative ==
    fpc = "called" =>
        /\ ret.kind \in {"return", "OverflowError"}
        /\ Returned(ret) => FLe(Zero(0), ret.val)

\* C5: for all finite a, b the call with k = 0 returns the Euclidean
\* magnitude sqrt(a*a + b*b).
C5_EuclideanAtZero ==
    (fpc = "called" /\ IsZero(arg_k)) =>
        ret = math_sqrt(FAdd(FMul(arg_a, arg_a), FMul(arg_b, arg_b)))

\* what C5 leaves when the calls that raise are set aside
ReturnedIsEuclidean ==
    (fpc = "called" /\ IsZero(arg_k) /\ Returned(ret)) =>
        ret = math_sqrt(FAdd(FMul(arg_a, arg_a), FMul(arg_b, arg_b)))

\* C6 as claimed, for the calls that return: for a, b not both zero and
\* 0 <= k1 < k2 the result for k1 is strictly less than the result for k2.
C6_StrictlyIncreasing ==
    (/\ fpc = "called2"
     /\ ~(IsZero(arg_a) /\ IsZero(arg_b))
     /\ NonNegK(arg_k) /\ FLt(arg_k, arg_k2)
     /\ Returned(ret) /\ Returned(ret2))
    => FLt(ret.val, ret2.val)

\* C6 as amended: for any a, b and 0 <= k1 < k2, if the call with k2 returns
\* then the call with k1 returns too and its result is not larger.
C6_NonDecreasing ==
    (/\ fpc = "called2"
     /\ NonNegK(arg_k) /\ FLt(arg_k, arg_k2)
     /\ Returned(ret2))
    => (Returned(ret) /\ FLe(ret.val, ret2.val))

\* two calls with 0 <= k1 < k2 and a finite result that grew
C6_Witness ==
    /\ fpc = "called2"
    /\ NonNegK(arg_k) /\ FLt(arg_k, arg_k2)
    /\ Returned(ret) /\ Returned(ret2)
    /\ ret2.val.cls = "fin"
    /\ FLt(ret.val, ret2.val)

\* C7: riemann_hypotenuse(0, 0, k) is exactly 0 for every k.
C7_ZeroAtOrigin ==
    (fpc = "called" /\ IsZero(arg_a) /\ IsZero(arg_b)) => ret = Return(Zero(0))

\* what C7 leaves when the calls that raise are set aside
ReturnedIsZeroAtOrigin ==
    (fpc = "called" /\ IsZero(arg_a) /\ IsZero(arg_b) /\ Returned(ret)) =>
        ret = Return(Zero(0))

\* a call raises only where ** or math.exp is out of range
RaisesOnlyOnOverflow ==
    (fpc = "called" /\ ~Returned(ret)) =>
        \/ float_pow2(arg_a).kind = "OverflowError"
        \/ float_pow2(arg_b).kind = "OverflowError"
        \/ math_exp(FDiv(FAbs(arg_k), Ten)).kind = "OverflowError"

----------------------------------------------------------------------------
(* Properties of run_tests, checked under Spec and LiveSpec. *)

Reports == { n \in 1..Len(out) : out[n].t = "case" }
Summaries == { n \in 1..Len(out) : out[n].t = "summary" }

\* C1: on the literal list every case is classified PASSED and the summary
\* is the 'all passed' one.
C1_LiteralCasesAllPass ==
    (pc = "done" /\ test_cases = LiteralCases) =>
        /\ all_tests_passed
        /\ \A n \in Reports : out[n].status = "PASSED"
        /\ out[Len(out)] = Line("summary", 0, "ALL_PASSED")

\* what has been printed: the header, then one report per processed case in
\* list order, then the summary once the loop has ended
OutShape ==
    /\ pc = "start" => out = <<>>
    /\ pc # "start" =>
          /\ i <= Len(test_cases)
          /\ Len(out) = 1 + i + (IF pc = "done" THEN 1 ELSE 0)
          /\ out[1].t = "header"
          /\ \A j \in 1..i : out[j + 1].t = "case" /\ out[j + 1].n = j
          /\ pc = "done" =>
                /\ i = Len(test_cases)
                /\ out[Len(out)].t = "summary"

\* C8: whatever the outcomes, every case is visited once in list order and
\* reported, the one summary comes after the last report, and the run ends.
C8_RunsToCompletion == []OutShape /\ <>(pc = "done")

\* a finished run whose first case FAILED and that went on to report the rest
C8_Witness ==
    /\ pc = "done"
    /\ Len(test_cases) >= 3
    /\ out[2].status = "FAILED"
    /\ Cardinality(Reports) = Len(test_cases)
    /\ Cardinality(Summaries) = 1

FMax(x, y) == IF FLt(x, y) THEN y ELSE x

\* |calculated - expected| <= max(0.01, 1e-9 * max(|calculated|, |expected|))
CloseByFormula(calculated_h, expected) ==
    FLe(FAbs(FSub(calculated_h, expected)),
        FMax(tolerance_abs,
             FMul(tolerance_rel, FMax(FAbs(calculated_h), FAbs(expected)))))

CloseCase(test) ==
    CloseByFormula(Calculated(test).val, test.expected_output_tolerance)

\* C9: after i cases the flag is True iff each of them was close by the
\* formula above, a report says PASSED iff its case was, and the summary is
\* the 'all passed' one iff no report says FAILED.
C9_FlagIsLatch ==
    pc \in {"loop", "done"} =>
        /\ all_tests_passed = (\A j \in 1..i : CloseCase(test_cases[j]))
        /\ \A j \in 1..i : (out[j + 1].status = "PASSED") = CloseCase(test_cases[j])
        /\ pc = "done" =>
              (out[Len(out)].status = "ALL_PASSED") =
                  (\A n \in Reports : out[n].status # "FAILED")

\* the flag stayed False over a later case that PASSED
C9_Witness ==
    /\ pc = "done"
    /\ Len(test_cases) >= 2
    /\ out[2].status = "FAILED"
    /\ out[Len(test_cases) + 1].status = "PASSED"
    /\ ~all_tests_passed
    /\ out[Len(out)].status = "SOME_FAILED"

\* the flag run_tests ends with on a list: the loop of lines 75-94 folded
RECURSIVE RunFlag(_, _)
RunFlag(cases, n) ==
    IF n = 0 THEN TRUE
    ELSE UpdateFlag(RunFlag(cases, n - 1), is_close(cases[n]))

Swap(seq, p) ==
    [j \in 1..Len(seq) |->
        IF j = p THEN seq[p + 1] ELSE IF j = p + 1 THEN seq[p] ELSE seq[j]]

\* C10: each case is reported once, with the status its own (a, b, k,
\* expected) gives it wherever it stands in the list, and exchanging two
\* neighbours of the list (hence any permutation) leaves the verdict as it is.
C10_OrderIndependent ==
    pc = "done" =>
        /\ Cardinality(Reports) = Len(test_cases)
        /\ \A j \in 1..Len(test_cases) :
              out[j + 1] = Line("case", j, Status(test_cases[j]))
        /\ \A p \in 1..(Len(test_cases) - 1) :
              RunFlag(Swap(test_cases, p), Len(test_cases)) = all_tests_passed

\* a finished run on a reordered list with both statuses in it, a PASSED
\* case standing after a FAILED one
C10_Witness ==
    /\ pc = "done"
    /\ Len(test_cases) = Len(LiteralCases)
    /\ test_cases # LiteralCases
    /\ \E j \in 1..(Len(test_cases) - 1) :
          out[j + 1].status = "FAILED" /\ out[j + 2].status = "PASSED"

====
